---- MODULE Spec2Model ----
(***************************************************************************)
(* State-machine model of the error ingestion / pivot engine and of the    *)
(* session cache of WorkflowWebTools (errorutils.py, globalerrors.py,      *)
(* runserver/workflowtools.py).                                            *)
(*                                                                         *)
(* Strings are sequences of one-character strings, so that joining,        *)
(* splitting and lexicographic sorting are computed, not assumed.          *)
(* A value that python holds as None or as an object is a sequence of      *)
(* length 0 or 1 (None == <<>>, an object x == <<x>>).                     *)
(***************************************************************************)
EXTENDS Integers, Sequences, FiniteSets, TLC

VARIABLES
    now,          \* the wall clock read by time.time(), in seconds
    sessions,     \* per session: the value of session['info'] (None or an ErrorInfo)
    GLOBAL_INFO,  \* the process-wide fallback ErrorInfo (None or an ErrorInfo)
    ret,          \* what the last call did and returned (or that it raised)
    inp           \* the arguments held by a caller across several calls

vars == <<now, sessions, GLOBAL_INFO, ret, inp>>

----------------------------------------------------------------------------
(* Bounds of the model *)

MaxTicks == 2          \* how many times the clock advances
MaxCount == 2          \* numbererrors ranges over 0..MaxCount
MaxRecords == 2        \* records per data source of the ingestion specification

\* steps in the step list of the workflow-list specification
MaxSteps == 3

----------------------------------------------------------------------------
(* Strings *)

None == <<>>
Some(x) == <<x>>
Range(s) == {s[i] : i \in DOMAIN s}

\* ord() of the characters the model uses
CharCode(c) ==
    CASE c = "-" -> 45 [] c = "/" -> 47 [] c = "0" -> 48 [] c = "1" -> 49 [] c = "2" -> 50
      [] c = "9" -> 57 [] c = "A" -> 65 [] c = "B" -> 66 [] c = "C" -> 67
      [] c = "T" -> 84 [] c = "X" -> 88 [] c = "Y" -> 89 [] c = "_" -> 95
      [] c = "s" -> 115 [] c = "t" -> 116 [] c = "u" -> 117 [] c = "x" -> 120

Digits == {"0", "1", "2", "9"}

\* a < b for two strings (python's and sqlite's BINARY comparison)
StrLess(a, b) ==
    \E i \in 1..(Len(a) + 1) :
        /\ i <= Len(b)
        /\ \A j \in 1..(i - 1) : a[j] = b[j]
        /\ \/ i = Len(a) + 1
           \/ CharCode(a[i]) < CharCode(b[i])

RECURSIVE SortStrings(_)
\* list.sort() of a list of distinct strings
SortStrings(S) ==
    IF S = {} THEN <<>>
    ELSE LET m == CHOOSE x \in S : \A y \in S \ {x} : StrLess(x, y)
         IN  <<m>> \o SortStrings(S \ {m})

\* '_'.join([a, b, c])
Join3(a, b, c) == a \o <<"_">> \o b \o <<"_">> \o c

----------------------------------------------------------------------------
(* Error codes: the column is declared `errorcode int`, so sqlite stores a  *)
(* text that is an integer literal as an integer and any other text as text *)

IsIntLiteral(s) == Len(s) > 0 /\ \A i \in DOMAIN s : s[i] \in Digits

RECURSIVE IntOf(_)
IntOf(s) ==
    IF s = <<>> THEN 0
    ELSE 10 * IntOf(SubSeq(s, 1, Len(s) - 1)) + (CharCode(s[Len(s)]) - 48)

IntCode(n) == [isnum |-> TRUE, n |-> n, s |-> <<>>]
TextCode(s) == [isnum |-> FALSE, n |-> 0, s |-> s]

int_affinity(s) == IF IsIntLiteral(s) THEN IntCode(IntOf(s)) ELSE TextCode(s)

\* set_all_lists.safe_int: int(element), or the element when int() raises
safe_int(element) ==
    IF element.isnum THEN element ELSE int_affinity(element.s)

\* a < b for error codes: python 2 orders every int before every string,
\* sqlite orders INTEGER before TEXT
CodeLess(a, b) ==
    IF a.isnum /\ b.isnum THEN a.n < b.n
    ELSE IF a.isnum THEN TRUE
    ELSE IF b.isnum THEN FALSE
    ELSE StrLess(a.s, b.s)

RECURSIVE SortCodes(_)
\* allerrors.sort(key=safe_int)
SortCodes(S) ==
    IF S = {} THEN <<>>
    ELSE LET m == CHOOSE x \in S :
                      \A y \in S \ {x} : CodeLess(safe_int(x), safe_int(y))
         IN  <<m>> \o SortCodes(S \ {m})

----------------------------------------------------------------------------
(* The workflows table *)

Columns == {"fullkey", "stepname", "errorcode", "sitename", "numbererrors"}

create_table_no_unique == [unique |-> FALSE, rows |-> <<>>]

\* errorutils.create_table: fullkey is UNIQUE
create_table == [unique |-> TRUE, rows |-> <<>>]

\* one INSERT of add_to_database, with its except sqlite3.IntegrityError
Insert(tbl, rec) ==
    LET full_key == Join3(rec.stepname, rec.sitename, rec.errorcode)
        row == [fullkey |-> full_key,
                stepname |-> rec.stepname,
                errorcode |-> int_affinity(rec.errorcode),
                sitename |-> rec.sitename,
                numbererrors |-> rec.numbererrors]
    IN  IF tbl.unique /\ \E i \in DOMAIN tbl.rows : tbl.rows[i].fullkey = full_key
        THEN tbl
        ELSE [tbl EXCEPT !.rows = Append(@, row)]

RECURSIVE add_to_database(_, _)
\* errorutils.add_to_database; data is the loaded mapping as the sequence of
\* (stepname, errorcode, sitename, numbererrors) its nested items() loops visit
add_to_database(tbl, data) ==
    IF data = <<>> THEN tbl
    ELSE add_to_database(Insert(tbl, Head(data)), Tail(data))

\* a < b for two values of one column
ColLess(column, a, b) ==
    CASE column = "errorcode" -> CodeLess(a, b)
      [] column = "numbererrors" -> a < b
      [] OTHER -> StrLess(a, b)

\* row a sorts before row b under ORDER BY cols[1] ASC, cols[2] ASC, ...
RowLess(a, b, cols) ==
    \E i \in DOMAIN cols :
        /\ \A j \in 1..(i - 1) : a[cols[j]] = b[cols[j]]
        /\ ColLess(cols[i], a[cols[i]], b[cols[i]])

RECURSIVE OrderByIdx(_, _, _)
OrderByIdx(rows, I, cols) ==
    IF I = {} THEN <<>>
    ELSE LET m == CHOOSE i \in I : \A j \in I \ {i} :
                      \/ RowLess(rows[i], rows[j], cols)
                      \/ (~RowLess(rows[j], rows[i], cols) /\ i < j)
         IN  <<rows[m]>> \o OrderByIdx(rows, I \ {m}, cols)

\* SELECT ... ORDER BY cols ASC (rows of equal keys stay in rowid order)
OrderBy(rows, cols) == OrderByIdx(rows, DOMAIN rows, cols)

RECURSIVE SelectWhere(_, _, _)
\* SELECT ... WHERE column = value, in rowid order
SelectWhere(rows, column, value) ==
    IF rows = <<>> THEN <<>>
    ELSE (IF Head(rows)[column] = value THEN <<Head(rows)>> ELSE <<>>)
         \o SelectWhere(Tail(rows), column, value)

----------------------------------------------------------------------------
(* ErrorInfo *)

\* the threshold of check_session, in seconds
StaleAfter == 60 * 30

\* a cursor whose connection is closed (or self.curs = None): every execute raises
NoCursor == [open |-> FALSE, tbl |-> create_table]

\* step.split('/')[1]
SplitSecond(step) ==
    LET first == CHOOSE i \in DOMAIN step :
                     step[i] = "/" /\ \A j \in 1..(i - 1) : step[j] # "/"
        stops == {i \in (first + 1)..Len(step) : step[i] = "/"}
        last == IF stops = {} THEN Len(step)
                ELSE (CHOOSE i \in stops : \A j \in stops : i <= j) - 1
    IN  SubSeq(step, first + 1, last)

RECURSIVE ReturnWorkflowsFrom_no_last(_, _)
\* the loop without `last = val`
ReturnWorkflowsFrom_no_last(steps, last) ==
    IF steps = <<>> THEN <<>>
    ELSE (IF SplitSecond(Head(steps)) # last THEN <<SplitSecond(Head(steps))>> ELSE <<>>)
         \o ReturnWorkflowsFrom_no_last(Tail(steps), last)

RECURSIVE ReturnWorkflowsFrom(_, _)
\* for step in self.allsteps: ... with last the value of the step before
ReturnWorkflowsFrom(steps, last) ==
    IF steps = <<>> THEN <<>>
    ELSE LET val == SplitSecond(Head(steps))
         IN  (IF val # last THEN <<val>> ELSE <<>>)
             \o ReturnWorkflowsFrom(Tail(steps), val)

\* ErrorInfo.return_workflows
return_workflows(allsteps) == ReturnWorkflowsFrom(allsteps, <<>>)

\* set_all_lists.get_all: SELECT DISTINCT column FROM workflows
get_all(tbl, column) == {tbl.rows[i][column] : i \in DOMAIN tbl.rows}

\* ErrorInfo.set_all_lists: the value of self.info (without the cursor);
\* self.allsteps is the very list info[1]
set_all_lists(tbl) ==
    [allsteps |-> SortStrings(get_all(tbl, "stepname")),
     allerrors |-> SortCodes(get_all(tbl, "errorcode")),
     allsites |-> SortStrings(get_all(tbl, "sitename"))]

\* ErrorInfo.get_allmap
get_allmap(self) ==
    [errorcode |-> self.info.allerrors,
     stepname |-> self.info.allsteps,
     sitename |-> self.info.allsites]

\* ErrorInfo.teardown: self.conn.close() also ends the cursors of that connection
teardown(self) ==
    [self EXCEPT !.conn = "closed",
                 !.curs = IF self.cursOnConn THEN NoCursor ELSE @]

RECURSIVE ConcatNew(_, _)
\* the records of the related workflows that are not current workflows
ConcatNew(others, current) ==
    IF others = <<>> THEN <<>>
    ELSE (IF Head(others).wf \in Range(current) THEN <<>> ELSE Head(others).data)
         \o ConcatNew(Tail(others), current)

\* ['/%s/' % zero for zero in other_workflows if zero not in current_workflows]
ZeroSteps(others, current) ==
    {<<"/">> \o others[i].wf \o <<"/">> :
        i \in {j \in DOMAIN others : others[j].wf \notin Range(current)}}

\* ErrorInfo.setup at time t.  env is what the outside world answers during
\* the call: whether the data source can be fetched and loaded (fetch), the
\* records it holds (data: the mapping to ingest, or the rows an existing .db
\* file was filled with through the same table), whether the workflow-metadata
\* collaborator answers (acdc) and with which related workflows (others), and
\* the include_all_acdcs configuration.
\* The result is the object as the call leaves it and whether it raised.

\* the last lines of the related-workflows pass: the second set_all_lists and
\* the steps of the related workflows without errors
SetupZeros(self, env, tbl, info) ==
    [raised |-> FALSE,
     self |-> [self EXCEPT
         !.curs = [open |-> TRUE, tbl |-> tbl],
         !.info = [info EXCEPT !.allsteps =
             IF env.include_all_acdcs
             THEN SortStrings(Range(info.allsteps) \cup
                      ZeroSteps(env.others, return_workflows(info.allsteps)))
             ELSE info.allsteps]]]

\* the related-workflows pass without its self.set_all_lists()
SetupAdded_no_lists(self, env, tbl) == SetupZeros(self, env, tbl, self.info)

\* errorutils.add_to_database(self.curs, [...]); self.set_all_lists()
SetupAdded(self, env, tbl) == SetupZeros(self, env, tbl, set_all_lists(tbl))

\* if not self.data_location: the related workflows are added to the database
SetupRelated(self, env) ==
    IF self.data_location # <<>> THEN [raised |-> FALSE, self |-> self]
    ELSE IF env.acdc = "fail" THEN [raised |-> TRUE, self |-> self]
    ELSE SetupAdded(self, env,
             add_to_database(self.curs.tbl,
                 ConcatNew(env.others, return_workflows(self.info.allsteps))))

\* self.curs = curs; self.set_all_lists()
SetupLists(self, env, tbl) ==
    SetupRelated([self EXCEPT !.curs = [open |-> TRUE, tbl |-> tbl],
                              !.cursOnConn = TRUE,
                              !.info = set_all_lists(tbl)], env)

\* the new connection, create_table and add_to_database
SetupIngest(self, env) ==
    IF env.fetch = "fail" THEN [raised |-> TRUE, self |-> self]
    ELSE SetupLists(self, env, add_to_database(create_table, env.data))

setup(self, t, env) ==
    SetupIngest([self EXCEPT !.timestamp = t, !.conn = "open",
                             !.cursOnConn = FALSE], env)

\* ErrorInfo.__init__
ErrorInfo(data_location, t, env) ==
    setup([data_location |-> data_location,
           timestamp |-> t,
           conn |-> "none",
           cursOnConn |-> FALSE,
           curs |-> NoCursor,
           info |-> set_all_lists(create_table)], t, env)

----------------------------------------------------------------------------
(* check_session *)

SessionIds == {"s1"}
NoSession == "None"
Keys == SessionIds \cup {NoSession}

\* the entry of a cache key
Held(S, G, session) == IF session # NoSession THEN S[session] ELSE G

\* the comparison with <= in place of <
IsStale_inclusive(theinfo, t) == theinfo.timestamp <= t - StaleAfter

\* theinfo.timestamp < time.time() - 60*30
IsStale(theinfo, t) == theinfo.timestamp < t - StaleAfter

\* as CheckDone, but the object is also what GLOBAL_INFO names
CheckDone_shared(S, G, session, did, last) ==
    [raised |-> last.raised,
     did |-> did,
     theinfo |-> Some(last.self),
     sessions |-> IF session # NoSession
                  THEN [S EXCEPT ![session] = Some(last.self)] ELSE S,
     GLOBAL_INFO |-> Some(last.self)]

\* return theinfo, with what the call did to the key
CheckDone(S, G, session, did, last) ==
    [raised |-> last.raised,
     did |-> did,
     theinfo |-> Some(last.self),
     sessions |-> IF session # NoSession
                  THEN [S EXCEPT ![session] = Some(last.self)] ELSE S,
     GLOBAL_INFO |-> IF session # NoSession THEN G ELSE Some(last.self)]

\* as CheckOld, but the key keeps the object whose construction raised
CheckOld_keeps_failed(S, G, session, can_refresh, t, env, did, built) ==
    IF can_refresh /\ ~built.raised /\ IsStale(built.self, t)
    THEN CheckDone(S, G, session, "refresh", setup(teardown(built.self), t, env))
    ELSE CheckDone(S, G, session, did, built)

\* as CheckOld, but the age is looked at whatever can_refresh says
CheckOld_any_access(S, G, session, can_refresh, t, env, did, built) ==
    IF built.raised
    THEN [raised |-> TRUE, did |-> did, theinfo |-> None,
          sessions |-> S, GLOBAL_INFO |-> G]
    ELSE IF IsStale(built.self, t)
    THEN CheckDone(S, G, session, "refresh", setup(teardown(built.self), t, env))
    ELSE CheckDone(S, G, session, did, built)

\* If session ErrorInfo is old, set up another connection
CheckOld(S, G, session, can_refresh, t, env, did, built) ==
    IF built.raised
    THEN [raised |-> TRUE, did |-> did, theinfo |-> None,
          sessions |-> S, GLOBAL_INFO |-> G]
    ELSE IF can_refresh /\ IsStale(built.self, t)
    THEN CheckDone(S, G, session, "refresh", setup(teardown(built.self), t, env))
    ELSE CheckDone(S, G, session, did, built)

\* the key's ErrorInfo, built when the key holds None
CheckHeld(S, G, session, can_refresh, t, env, held) ==
    IF held = None
    THEN CheckOld(S, G, session, can_refresh, t, env, "build",
                  ErrorInfo(<<>>, t, env))
    ELSE CheckOld(S, G, session, can_refresh, t, env, "none",
                  [raised |-> FALSE, self |-> held[1]])

\* globalerrors.check_session(session, can_refresh) at time t over the session
\* store S and the global G: the stores it leaves, whether it raised, what it
\* did to the key and the ErrorInfo it returned
check_session(S, G, session, can_refresh, t, env) ==
    CheckHeld(S, G, session, can_refresh, t, env, Held(S, G, session))

----------------------------------------------------------------------------
(* Pivot engine *)

\* curs.fetchone() or (0, '', '')
Fetched(recs) ==
    IF recs = <<>>
    THEN [numbererrors |-> 0, sitename |-> <<>>, errorcode |-> TextCode(<<>>)]
    ELSE Head(recs)

\* the rows left after one more curs.fetchone()
Rest(recs) == IF recs = <<>> THEN recs ELSE Tail(recs)

EmptyDict == [x \in {} |-> 0]

\* d[key] of a defaultdict whose default is an empty dictionary
Sub(d, key) == IF key \in DOMAIN d THEN d[key] ELSE EmptyDict

\* d[key] = value
Put(d, key, value) ==
    [x \in DOMAIN d \cup {key} |-> IF x = key THEN value ELSE d[x]]

RECURSIVE SparseTable(_, _)
\* the sparse loop of get_step_table: while numbererrors: ...
SparseTable(recs, output) ==
    IF Fetched(recs).numbererrors = 0 THEN output
    ELSE SparseTable(Rest(recs),
             Put(output, Head(recs).errorcode,
                 Put(Sub(output, Head(recs).errorcode),
                     Head(recs).sitename, Head(recs).numbererrors)))

RECURSIVE DenseRow_no_fetch(_, _, _, _)
\* the inner loop without the curs.fetchone() after a cell is filled
DenseRow_no_fetch(sites, error, recs, steprow) ==
    IF sites = <<>> THEN [steprow |-> steprow, recs |-> recs]
    ELSE IF error # Fetched(recs).errorcode \/ Head(sites) # Fetched(recs).sitename
    THEN DenseRow_no_fetch(Tail(sites), error, recs, Append(steprow, 0))
    ELSE DenseRow_no_fetch(Tail(sites), error, recs,
                           Append(steprow, Fetched(recs).numbererrors))

RECURSIVE DenseRow(_, _, _, _)
\* for site in allmap['sitename']: one row of the dense table, and the rows
\* of the query not yet consumed
DenseRow(sites, error, recs, steprow) ==
    IF sites = <<>> THEN [steprow |-> steprow, recs |-> recs]
    ELSE IF error # Fetched(recs).errorcode \/ Head(sites) # Fetched(recs).sitename
    THEN DenseRow(Tail(sites), error, recs, Append(steprow, 0))
    ELSE DenseRow(Tail(sites), error, Rest(recs),
                  Append(steprow, Fetched(recs).numbererrors))

RECURSIVE DenseTable(_, _, _, _)
DenseNext(errors, sites, steptable, done) ==
    DenseTable(Tail(errors), sites, done.recs, Append(steptable, done.steprow))

\* for error in allmap['errorcode']: the dense table
DenseTable(errors, sites, recs, steptable) ==
    IF errors = <<>> THEN steptable
    ELSE DenseNext(errors, sites, steptable,
                   DenseRow(sites, Head(errors), recs, <<>>))

\* the rows of the query of get_step_table
StepRows(tbl, step) ==
    OrderBy(SelectWhere(tbl.rows, "stepname", step), <<"errorcode", "sitename">>)

\* globalerrors.get_step_table on the ErrorInfo check_session returned, with
\* the session's own allmap.  A readymatch adds a condition on the column
\* sitereadiness, which the table of create_table does not have.
get_step_table(theinfo, step, readymatch, sparse) ==
    IF ~theinfo.curs.open \/ readymatch THEN [raised |-> TRUE, out |-> <<>>]
    ELSE IF sparse
    THEN [raised |-> FALSE,
          out |-> SparseTable(StepRows(theinfo.curs.tbl, step), EmptyDict)]
    ELSE [raised |-> FALSE,
          out |-> DenseTable(get_allmap(theinfo).errorcode,
                             get_allmap(theinfo).sitename,
                             StepRows(theinfo.curs.tbl, step), <<>>)]

ValidPievars == {"errorcode", "sitename", "stepname"}

\* globalerrors.get_row_col_names
get_row_col_names(pievar) ==
    CASE pievar = "sitename" -> <<"stepname", "errorcode">>
      [] pievar = "stepname" -> <<"errorcode", "sitename">>
      [] OTHER -> <<"stepname", "sitename">>

\* default_errors_format: the entry of a group that is not there yet
\* (extra holds the keys a caller of group_errors adds to a group)
default_errors_format ==
    [errors |-> EmptyDict, sub |-> EmptyDict, total |-> 0, extra |-> EmptyDict]

Group(output, key) ==
    IF key \in DOMAIN output THEN output[key] ELSE default_errors_format

\* output[row]['errors'][col][pievar] = numerrors; output[row]['total'] += numerrors
AddError(output, row, col, pie, numerrors) ==
    Put(output, row,
        [Group(output, row) EXCEPT
            !.errors = Put(@, col, Put(Sub(@, col), pie, numerrors)),
            !.total = @ + numerrors])

RECURSIVE ErrorsLoop(_, _, _)
\* the loop of get_errors: while numerrors: ...
ErrorsLoop(recs, names, output) ==
    IF recs = <<>> \/ Head(recs).numbererrors = 0 THEN output
    ELSE ErrorsLoop(Tail(recs), names,
             AddError(output, Head(recs)[names[1]], Head(recs)[names[2]],
                      Head(recs)[names[3]], Head(recs).numbererrors))

\* globalerrors.get_errors on the ErrorInfo check_session returned; pievar is
\* put into the text of the query as it is
get_errors(theinfo, pievar) ==
    IF ~theinfo.curs.open \/ pievar \notin Columns
    THEN [raised |-> TRUE, out |-> EmptyDict]
    ELSE [raised |-> FALSE,
          out |-> ErrorsLoop(
              OrderBy(theinfo.curs.tbl.rows, get_row_col_names(pievar) \o <<pievar>>),
              get_row_col_names(pievar) \o <<pievar>>, EmptyDict)]

RECURSIVE Pairs(_, _)
\* output.append((name, num)) for every row of the query
Pairs(recs, pievar) ==
    IF recs = <<>> THEN <<>>
    ELSE <<<<Head(recs)[pievar], Head(recs).numbererrors>>>>
         \o Pairs(Tail(recs), pievar)

\* globalerrors.list_matching_pievars on the ErrorInfo check_session returned
list_matching_pievars(theinfo, pievar, row, col) ==
    IF ~theinfo.curs.open \/ pievar \notin Columns
    THEN [raised |-> TRUE, out |-> <<>>]
    ELSE [raised |-> FALSE,
          out |-> Pairs(SelectWhere(
                            SelectWhere(theinfo.curs.tbl.rows,
                                        get_row_col_names(pievar)[1], row),
                            get_row_col_names(pievar)[2], col), pievar)]

\* errors[row][col] of a defaultdict of defaultdicts whose default is 0
Cell(errors, row, col) ==
    IF row \in DOMAIN errors
    THEN (IF col \in DOMAIN errors[row] THEN errors[row][col] ELSE 0)
    ELSE 0

\* the columns of a row, none when the row is not there
ColsOf(errors, row) == IF row \in DOMAIN errors THEN DOMAIN errors[row] ELSE {}

\* the two loops with `=` in place of `+=`
SumInto_replace(dst, src) ==
    [row \in DOMAIN dst \cup {r \in DOMAIN src : DOMAIN src[r] # {}} |->
        [col \in ColsOf(dst, row) \cup ColsOf(src, row) |->
            IF col \in ColsOf(src, row) THEN src[row][col] ELSE dst[row][col]]]

\* for row, row_val in values['errors'].iteritems():
\*     for col, numerrors in row_val.iteritems():
\*         output[group]['errors'][row][col] += numerrors
SumInto(dst, src) ==
    [row \in DOMAIN dst \cup {r \in DOMAIN src : DOMAIN src[r] # {}} |->
        [col \in ColsOf(dst, row) \cup ColsOf(src, row) |->
            Cell(dst, row, col) + Cell(src, row, col)]]

\* for key, func in kwargs.iteritems(): output[group][key] = func(group)
Decorate(extra, kwargs, group) ==
    [key \in DOMAIN extra \cup DOMAIN kwargs |->
        IF key \in DOMAIN kwargs THEN kwargs[key][group] ELSE extra[key]]

\* the body of the loop with `=` in place of `+=` for the total
GroupOne_total_overwrite(acc, subgroup, values, group, kwargs) ==
    [output |-> Put(acc.output, group,
                    [errors |-> SumInto(Group(acc.output, group).errors, values.errors),
                     sub |-> Put(Group(acc.output, group).sub, subgroup, values),
                     total |-> values.total,
                     extra |-> Decorate(Group(acc.output, group).extra, kwargs, group)]),
     calls |-> acc.calls + Cardinality(DOMAIN kwargs)]

\* the body of the loop of group_errors for one subgroup; acc holds the
\* output so far and the number of calls of the functions of kwargs
GroupOne(acc, subgroup, values, group, kwargs) ==
    [output |-> Put(acc.output, group,
                    [errors |-> SumInto(Group(acc.output, group).errors, values.errors),
                     sub |-> Put(Group(acc.output, group).sub, subgroup, values),
                     total |-> Group(acc.output, group).total + values.total,
                     extra |-> Decorate(Group(acc.output, group).extra, kwargs, group)]),
     calls |-> acc.calls + Cardinality(DOMAIN kwargs)]

RECURSIVE GroupLoop(_, _, _, _, _)
GroupNext(subgroups, subgroup, input_errors, grouping_function, kwargs, acc) ==
    GroupLoop(subgroups \ {subgroup}, input_errors, grouping_function, kwargs,
              GroupOne(acc, subgroup, input_errors[subgroup],
                       grouping_function[subgroup], kwargs))

\* for subgroup, values in input_errors.iteritems(): ...
GroupLoop(subgroups, input_errors, grouping_function, kwargs, acc) ==
    IF subgroups = {} THEN acc
    ELSE GroupNext(subgroups, CHOOSE subgroup \in subgroups : TRUE,
                   input_errors, grouping_function, kwargs, acc)

\* globalerrors.group_errors
group_errors(input_errors, grouping_function, kwargs) ==
    GroupLoop(DOMAIN input_errors, input_errors, grouping_function, kwargs,
              [output |-> EmptyDict, calls |-> 0])

----------------------------------------------------------------------------
(* What the outside world can answer *)

Rec(step, code, site, n) ==
    [stepname |-> step, errorcode |-> code, sitename |-> site, numbererrors |-> n]

StepA == <<"/", "A", "/", "s">>
StepAT == <<"/", "A", "/", "s", "_", "T">>
StepB == <<"/", "B", "/", "t">>
StepC == <<"/", "C", "/", "u">>
SiteX == <<"X">>
SiteTX == <<"T", "_", "X">>
SiteY == <<"Y">>

Env(fetch, data, acdc, others, include) ==
    [fetch |-> fetch, data |-> data,
     acdc |-> acdc, others |-> others, include_all_acdcs |-> include]

DataOne == <<Rec(StepA, <<"2">>, SiteX, 2)>>
DataTwo == <<Rec(StepB, <<"1", "0">>, SiteY, 0), Rec(StepA, <<"2">>, SiteX, 1)>>

RelatedC == [wf |-> <<"C">>, data |-> <<Rec(StepC, <<"1">>, SiteX, 1)>>]
RelatedB == [wf |-> <<"B">>, data |-> <<>>]

\* the answers of the outside world in the cache specification
Envs ==
    { Env("fail", <<>>, "ok", <<>>, FALSE),
      Env("ok", DataOne, "fail", <<>>, FALSE),
      Env("ok", DataOne, "ok", <<RelatedB>>, TRUE),
      Env("ok", DataTwo, "ok", <<RelatedB, RelatedC>>, FALSE) }

----------------------------------------------------------------------------
(* The cache specification: clock, accesses, manual reset *)

NoRet == [op |-> "none"]

Init ==
    /\ now = 0
    /\ sessions = [k \in SessionIds |-> None]
    /\ GLOBAL_INFO = None
    /\ ret = NoRet
    /\ inp = None

\* the clock advances by one second or by the threshold
TickSteps == {1, StaleAfter}
TicksDone(t) == (t \div StaleAfter) + (t % StaleAfter)

Tick ==
    /\ TicksDone(now) < MaxTicks
    /\ \E d \in TickSteps : now' = now + d
    /\ UNCHANGED <<sessions, GLOBAL_INFO, ret, inp>>

\* the age of an entry at time t (-1 when the key holds none)
Age(held, t) == IF held = None THEN -1 ELSE t - held[1].timestamp

\* the outside world is asked only by a call that builds or rebuilds
Answers(session, can_refresh, E) ==
    IF \/ Held(sessions, GLOBAL_INFO, session) = None
       \/ (can_refresh /\ IsStale(Held(sessions, GLOBAL_INFO, session)[1], now))
    THEN E
    ELSE {CHOOSE env \in E : TRUE}

CheckReturned(session, can_refresh, r) ==
    /\ sessions' = r.sessions
    /\ GLOBAL_INFO' = r.GLOBAL_INFO
    /\ ret' = [op |-> "check_session", session |-> session,
               can_refresh |-> can_refresh,
               age |-> Age(Held(sessions, GLOBAL_INFO, session), now),
               did |-> r.did, raised |-> r.raised,
               age_after |-> Age(r.theinfo, now)]
    /\ UNCHANGED <<now, inp>>

\* one call of check_session(session, can_refresh); the ErrorInfo it returns
\* is the one the key holds afterwards
CheckSession(session, can_refresh, E) ==
    \E env \in Answers(session, can_refresh, E) :
        CheckReturned(session, can_refresh,
            check_session(sessions, GLOBAL_INFO, session, can_refresh, now, env))

\* the reset that only drops the entry of the key
ResetReturned_absent(session, r) ==
    /\ sessions' = [sessions EXCEPT ![session] = None]
    /\ ret' = [op |-> "resetcache", session |-> session,
               at |-> now, age |-> Age(sessions[session], now),
               raised |-> r.raised]
    /\ UNCHANGED <<now, GLOBAL_INFO, inp>>

\* info.teardown(); info.setup() on the object the session holds
ResetReturned(session, r) ==
    /\ sessions' = [sessions EXCEPT ![session] = Some(r.self)]
    /\ ret' = [op |-> "resetcache", session |-> session,
               at |-> now, age |-> Age(sessions[session], now),
               raised |-> r.raised]
    /\ UNCHANGED <<now, GLOBAL_INFO, inp>>

\* WorkflowTools.resetcache for the session of the request
ResetCache(session, E) ==
    IF sessions[session] # None
    THEN \E env \in E :
             ResetReturned(session, setup(teardown(sessions[session][1]), now, env))
    ELSE /\ ret' = [op |-> "resetcache", session |-> session,
                    at |-> now, age |-> -1, raised |-> FALSE]
         /\ UNCHANGED <<now, sessions, GLOBAL_INFO, inp>>

Next ==
    \/ Tick
    \/ \E k \in Keys, can_refresh \in BOOLEAN : CheckSession(k, can_refresh, Envs)
    \/ \E k \in SessionIds : ResetCache(k, Envs)

Spec == Init /\ [][Next]_vars

----------------------------------------------------------------------------
(* Claims about the session cache (specification Spec) *)

\* the ErrorInfo of the key the last call was made for
HeldNow == Held(sessions, GLOBAL_INFO, ret.session)

\* C1: when a refresh-eligible access finds the entry stale and the rebuild
\* fails, the key is Absent afterwards (so the next access builds afresh).
C1_FailedRefreshLeavesAbsent ==
    (ret.op = "check_session" /\ ret.did = "refresh" /\ ret.raised)
        => HeldNow = None

\* C2 as stated: a refresh-eligible access to an entry of age >= 30 minutes
\* rebuilds it, and an entry returned by such an access is younger than 30
\* minutes.
C2_RefreshAtThreshold ==
    (ret.op = "check_session" /\ ret.can_refresh /\ ~ret.raised)
        => /\ (ret.age >= StaleAfter => ret.did = "refresh")
           /\ ret.age_after < StaleAfter

\* C2 amended: a refresh-eligible access rebuilds the entry exactly when its
\* age is more than 30 minutes (an entry aged exactly 30 minutes is returned
\* as it is), a rebuilt entry that is returned was created at the time of the
\* access, and every entry returned by such an access is at most 30 minutes old.
C2_RefreshPastThreshold ==
    (ret.op = "check_session" /\ ret.can_refresh)
        => /\ (ret.age > StaleAfter => ret.did = "refresh")
           /\ (ret.age \in 0..StaleAfter => ret.did = "none")
           /\ (~ret.raised => ret.age_after \in 0..StaleAfter)
           /\ (~ret.raised /\ ret.did = "refresh"
                  => /\ ret.age_after = 0
                     /\ HeldNow # None
                     /\ HeldNow[1].curs.open)

C2_Witness ==
    /\ ret.op = "check_session" /\ ret.can_refresh /\ ~ret.raised
    /\ ret.age = StaleAfter + 1 /\ ret.did = "refresh"

\* C3: the first access to an Absent key builds the store synchronously; on
\* success the key holds the fresh entry that is returned, on failure the
\* call raises and the key is still Absent.
C3_FirstAccessBuilds ==
    ret.op = "check_session"
        => /\ (ret.age = -1) <=> (ret.did = "build")
           /\ (ret.did = "build" /\ ret.raised) => HeldNow = None
           /\ (ret.did = "build" /\ ~ret.raised)
                  => /\ HeldNow # None
                     /\ ret.age_after = 0
                     /\ HeldNow[1].conn = "open"
                     /\ HeldNow[1].curs.open

C3_Witness ==
    /\ ret.op = "check_session" /\ ret.did = "build" /\ ret.raised
    /\ HeldNow = None

\* C13: a manual reset is permitted in every state of the key and leaves the
\* key Absent when it returns.
C13_ResetLeavesAbsent ==
    (ret.op = "resetcache" /\ ~ret.raised) => sessions[ret.session] = None

\* C13 (amended): a manual reset that returns leaves a key that held no
\* store without one, and a key that held a store with that store rebuilt at
\* the time of the reset, its connection and cursor open.
C13_ResetRebuilds ==
    (ret.op = "resetcache" /\ ~ret.raised)
        => IF ret.age = -1 THEN sessions[ret.session] = None
           ELSE /\ sessions[ret.session] # None
                /\ sessions[ret.session][1].timestamp = ret.at
                /\ sessions[ret.session][1].conn = "open"
                /\ sessions[ret.session][1].curs.open

\* a reset of a store past the threshold
C13_Witness ==
    /\ ret.op = "resetcache" /\ ~ret.raised
    /\ ret.age > StaleAfter
    /\ sessions[ret.session] # None
    /\ sessions[ret.session][1].timestamp = ret.at

\* C16: an access that does not opt into the refresh check (can_refresh
\* False) leaves an existing entry as it is, whatever its age: store,
\* connection and timestamp are unchanged by the call.
C16_NoRefreshFrame ==
    [][(/\ now' = now
        /\ ret'.op = "check_session"
        /\ ~ret'.can_refresh
        /\ Held(sessions, GLOBAL_INFO, ret'.session) # None)
           => (sessions' = sessions /\ GLOBAL_INFO' = GLOBAL_INFO)]_vars

\* such an access to an entry past the threshold
C16_Witness ==
    /\ ret.op = "check_session" /\ ~ret.can_refresh /\ ~ret.raised
    /\ ret.age > StaleAfter
    /\ ret.age_after = ret.age
    /\ ret.did = "none"

\* the last call ran a setup to its end
SetupCompleted ==
    \/ ret.op = "check_session" /\ ret.did \in {"build", "refresh"} /\ ~ret.raised
    \/ ret.op = "resetcache" /\ ret.age # -1 /\ ~ret.raised

\* the steps of the index that no stored record has
ExtraSteps ==
    Range(HeldNow[1].info.allsteps) \ get_all(HeldNow[1].curs.tbl, "stepname")

\* C18: after every completed setup the three indexes are the sorted
\* distinct steps, sites and error codes of the stored records, no value
\* absent from the records and none missing.
C18_IndexesExact ==
    SetupCompleted
        => /\ HeldNow[1].info = set_all_lists(HeldNow[1].curs.tbl)
           /\ ExtraSteps = {}

\* C18 (amended): the site and error-code indexes are the sorted distinct
\* values of the stored records; the step index is sorted and holds every
\* distinct step of the records and, besides, only steps /<workflowID>/ of
\* workflows that have no stored record.
C18_IndexesWithPlaceholders ==
    SetupCompleted
        => /\ HeldNow[1].info.allsites = set_all_lists(HeldNow[1].curs.tbl).allsites
           /\ HeldNow[1].info.allerrors = set_all_lists(HeldNow[1].curs.tbl).allerrors
           /\ HeldNow[1].info.allsteps
                  = SortStrings(get_all(HeldNow[1].curs.tbl, "stepname") \cup ExtraSteps)
           /\ \A step \in ExtraSteps :
                  /\ step = <<"/">> \o SplitSecond(step) \o <<"/">>
                  /\ \A other \in get_all(HeldNow[1].curs.tbl, "stepname") :
                         SplitSecond(other) # SplitSecond(step)

\* a setup that added the step of a related workflow without records
C18_Witness ==
    /\ SetupCompleted
    /\ get_all(HeldNow[1].curs.tbl, "stepname") # {}
    /\ ExtraSteps # {}

----------------------------------------------------------------------------
(* The ingestion specification: create_table, then add_to_database twice *)

\* the (step, site) pairs of the ingested records; two of them join to the
\* same fullkey
IngestPairs == {<<StepA, SiteTX>>, <<StepAT, SiteX>>, <<StepA, SiteX>>}

IngestRecords ==
    {Rec(p[1], <<"1">>, p[2], n) : p \in IngestPairs, n \in 0..MaxCount}

SameTriple(a, b) ==
    /\ a.stepname = b.stepname
    /\ a.sitename = b.sitename
    /\ a.errorcode = b.errorcode

\* a loaded mapping holds each (step, errorcode, site) once, and its nested
\* items() loops visit the records of one step, and of one error code of a
\* step, together
IsItemsOrder(data) ==
    /\ \A i, j \in DOMAIN data : i # j => ~SameTriple(data[i], data[j])
    /\ \A i, j, k \in DOMAIN data :
           (i < j /\ j < k /\ data[i].stepname = data[k].stepname)
               => data[j].stepname = data[i].stepname

SeqsUpTo(S, n) == UNION {[1..m -> S] : m \in 0..n}

IngestSources == {data \in SeqsUpTo(IngestRecords, MaxRecords) : IsItemsOrder(data)}

InitIngest ==
    /\ now = 0
    /\ sessions = [k \in SessionIds |-> None]
    /\ GLOBAL_INFO = None
    /\ ret = NoRet
    /\ inp = None

\* errorutils.create_table on the cursor of a new connection
CreateTable ==
    /\ ret.op = "none"
    /\ ret' = [op |-> "create_table", tbl |-> create_table,
               before |-> create_table, passes |-> <<>>]
    /\ UNCHANGED <<now, sessions, GLOBAL_INFO, inp>>

\* errorutils.add_to_database(curs, data_location) for a source that loads
AddToDatabase ==
    /\ ret.op \in {"create_table", "add_to_database"}
    /\ Len(ret.passes) <= 1
    /\ \E data \in IngestSources :
           ret' = [op |-> "add_to_database",
                   tbl |-> add_to_database(ret.tbl, data),
                   before |-> ret.tbl,
                   passes |-> Append(ret.passes, data)]
    /\ UNCHANGED <<now, sessions, GLOBAL_INFO, inp>>

NextIngest == CreateTable \/ AddToDatabase

SpecIngest == InitIngest /\ [][NextIngest]_vars

RECURSIVE SumCounts(_)
\* the sum of numbererrors over a sequence of rows
SumCounts(rows) ==
    IF rows = <<>> THEN 0 ELSE Head(rows).numbererrors + SumCounts(Tail(rows))

RECURSIVE RowsOf(_, _)
RowsOf(rows, rec) ==
    IF rows = <<>> THEN <<>>
    ELSE (IF /\ Head(rows).stepname = rec.stepname
             /\ Head(rows).sitename = rec.sitename
             /\ Head(rows).errorcode = int_affinity(rec.errorcode)
          THEN <<Head(rows)>> ELSE <<>>) \o RowsOf(Tail(rows), rec)

\* the store's total count for the (step, site, errorcode) of a record
TotalCount(tbl, rec) == SumCounts(RowsOf(tbl.rows, rec))

SameSourceTwice ==
    /\ ret.op = "add_to_database"
    /\ Len(ret.passes) = 2
    /\ ret.passes[1] = ret.passes[2]

\* C4 as stated: ingesting the same source twice into a fresh in-memory store
\* doubles every count.
C4_SecondPassDoubles ==
    SameSourceTwice =>
        \A i \in DOMAIN ret.passes[1] :
            TotalCount(ret.tbl, ret.passes[1][i])
                = 2 * ret.passes[1][i].numbererrors

\* C4 amended: ingesting the same source twice into a fresh store made by
\* create_table changes nothing the second time: every record of the second
\* pass is skipped as a duplicate, so the table is the one the first pass left
\* and no (step, site, errorcode) has more than the source's count.
C4_SecondPassSkipsAll ==
    SameSourceTwice =>
        /\ ret.tbl = ret.before
        /\ \A i \in DOMAIN ret.passes[1] :
               TotalCount(ret.tbl, ret.passes[1][i])
                   <= ret.passes[1][i].numbererrors

C4_Witness ==
    /\ SameSourceTwice
    /\ \E i \in DOMAIN ret.passes[1] :
           /\ ret.passes[1][i].numbererrors > 0
           /\ TotalCount(ret.tbl, ret.passes[1][i])
                  = ret.passes[1][i].numbererrors

\* C5: after ingesting two overlapping sources into a store with the
\* duplicate-key guard, the stored count of every (step, site, errorcode)
\* that both sources hold is the first source's value.
C5_FirstSourceWins ==
    (ret.op = "add_to_database" /\ Len(ret.passes) = 2) =>
        \A i \in DOMAIN ret.passes[1], j \in DOMAIN ret.passes[2] :
            SameTriple(ret.passes[1][i], ret.passes[2][j])
                => TotalCount(ret.tbl, ret.passes[1][i])
                       = ret.passes[1][i].numbererrors

\* C20: duplicate rejection is exact on (step, site, errorcode): every
\* record of a source whose triple is not yet in the store is inserted.
C20_ExactDuplicates ==
    (ret.op = "add_to_database") =>
        \A i \in DOMAIN ret.passes[Len(ret.passes)] :
            RowsOf(ret.before.rows, ret.passes[Len(ret.passes)][i]) = <<>>
                => RowsOf(ret.tbl.rows, ret.passes[Len(ret.passes)][i]) # <<>>

----------------------------------------------------------------------------
(* The pivot specification: step tables and global pivots over the store of *)
(* the process-wide key (session = None)                                    *)

\* the (step, errorcode, site) of the records of the pivot sources
PivotTriples ==
    { <<StepA, <<"2">>, SiteX>>, <<StepA, <<"2">>, SiteY>>,
      <<StepA, <<"1", "0">>, SiteX>>, <<StepA, <<"1", "0">>, SiteY>>,
      <<StepA, <<"x">>, SiteX>>, <<StepB, <<"2">>, SiteX>> }

PivotRecords ==
    {Rec(p[1], p[2], p[3], n) : p \in PivotTriples, n \in 0..MaxCount}

PivotSources == {data \in SeqsUpTo(PivotRecords, MaxRecords) : IsItemsOrder(data)}

PivotEnvs == {Env("ok", data, "ok", <<>>, FALSE) : data \in PivotSources}

\* the values a caller passes for a dimension
DimValues(name) ==
    CASE name = "stepname" -> {p[1] : p \in PivotTriples}
      [] name = "sitename" -> {p[3] : p \in PivotTriples}
      [] name = "errorcode" -> {int_affinity(p[2]) : p \in PivotTriples}

\* the split values a caller passes: the three dimensions and another word
Pievars == ValidPievars \cup {"bogus"}

StepTableReturned(session, step, readymatch, sparse, r) ==
    /\ sessions' = r.sessions
    /\ GLOBAL_INFO' = r.GLOBAL_INFO
    /\ ret' = [op |-> "get_step_table", session |-> session, step |-> step,
               readymatch |-> readymatch, sparse |-> sparse,
               res |-> IF r.raised THEN [raised |-> TRUE, out |-> <<>>]
                       ELSE get_step_table(r.theinfo[1], step, readymatch, sparse)]
    /\ UNCHANGED <<now, inp>>

\* one call of get_step_table(step, session, readymatch=..., sparse=...)
GetStepTable(session, step, readymatch, sparse, E) ==
    \E env \in Answers(session, FALSE, E) :
        StepTableReturned(session, step, readymatch, sparse,
            check_session(sessions, GLOBAL_INFO, session, FALSE, now, env))

ErrorsReturned(session, pievar, r) ==
    /\ sessions' = r.sessions
    /\ GLOBAL_INFO' = r.GLOBAL_INFO
    /\ ret' = [op |-> "get_errors", session |-> session, pievar |-> pievar,
               res |-> IF r.raised THEN [raised |-> TRUE, out |-> EmptyDict]
                       ELSE get_errors(r.theinfo[1], pievar)]
    /\ UNCHANGED <<now, inp>>

\* one call of get_errors(pievar, session)
GetErrors(session, pievar, E) ==
    \E env \in Answers(session, FALSE, E) :
        ErrorsReturned(session, pievar,
            check_session(sessions, GLOBAL_INFO, session, FALSE, now, env))

MatchingReturned(session, pievar, row, col, r) ==
    /\ sessions' = r.sessions
    /\ GLOBAL_INFO' = r.GLOBAL_INFO
    /\ ret' = [op |-> "list_matching_pievars", session |-> session,
               pievar |-> pievar, row |-> row, col |-> col,
               res |-> IF r.raised THEN [raised |-> TRUE, out |-> <<>>]
                       ELSE list_matching_pievars(r.theinfo[1], pievar, row, col)]
    /\ UNCHANGED <<now, inp>>

\* one call of list_matching_pievars(pievar, row, col, session)
ListMatchingPievars(session, pievar, E) ==
    \E env \in Answers(session, TRUE, E),
       row \in DimValues(get_row_col_names(pievar)[1]),
       col \in DimValues(get_row_col_names(pievar)[2]) :
        MatchingReturned(session, pievar, row, col,
            check_session(sessions, GLOBAL_INFO, session, TRUE, now, env))

NextPivot ==
    \/ \E step \in DimValues("stepname"), sparse \in BOOLEAN :
           GetStepTable(NoSession, step, FALSE, sparse, PivotEnvs)
    \/ \E pievar \in ValidPievars : GetErrors(NoSession, pievar, PivotEnvs)

SpecPivot == Init /\ [][NextPivot]_vars

----------------------------------------------------------------------------
(* The split specification: the global pivot of a page, cell by cell, while *)
(* the clock advances                                                       *)

NextSplit ==
    \/ Tick
    \/ \E step \in DimValues("stepname"), readymatch \in BOOLEAN :
           GetStepTable(NoSession, step, readymatch, FALSE, Envs)
    \/ \E pievar \in Pievars : GetErrors(NoSession, pievar, Envs)
    \/ \E pievar \in Pievars : ListMatchingPievars(NoSession, pievar, Envs)

SpecSplit == Init /\ [][NextSplit]_vars

----------------------------------------------------------------------------
(* Claims on the pivot and split specifications *)

\* the store of the ErrorInfo the last call worked on
StoreNow == HeldNow[1].curs.tbl

\* the index lists of that ErrorInfo
IndexNow == get_allmap(HeldNow[1])

\* sparse[errorcode][site], 0 where the sparse table has no entry
Lookup(out, error, site) ==
    IF error \in DOMAIN out
    THEN (IF site \in DOMAIN out[error] THEN out[error][site] ELSE 0)
    ELSE 0

\* the dense table of the same step and store
DenseOf(step) == get_step_table(HeldNow[1], step, FALSE, FALSE).out

RECURSIVE SumSeq(_)
SumSeq(row) == IF row = <<>> THEN 0 ELSE Head(row) + SumSeq(Tail(row))

RECURSIVE SumTable(_)
SumTable(table) ==
    IF table = <<>> THEN 0 ELSE SumSeq(Head(table)) + SumTable(Tail(table))

RECURSIVE SumFn(_)
SumFnStep(f, x) == f[x] + SumFn([y \in DOMAIN f \ {x} |-> f[y]])

\* the sum of the values of a dictionary of ints
SumFn(f) ==
    IF DOMAIN f = {} THEN 0 ELSE SumFnStep(f, CHOOSE x \in DOMAIN f : TRUE)

\* the sum of output[row]['total'] over all rows
RowTotals(output) == SumFn([row \in DOMAIN output |-> output[row].total])

\* the cells of one row summed per column, and those column sums added up
ColTotalsOfRow(errors) ==
    SumFn([col \in DOMAIN errors |-> SumFn(errors[col])])

\* the column totals of the pivot added up
ColTotals(output) ==
    SumFn([row \in DOMAIN output |-> ColTotalsOfRow(output[row].errors)])

\* C6: for any store and step, the sparse and the dense step table agree on
\* the non-zero entries: sparse[errorcode][site] is the dense cell at the
\* indexes of errorcode and site (0 where the sparse table has no entry).
C6_SparseDenseAgree ==
    (ret.op = "get_step_table" /\ ret.sparse /\ ~ret.res.raised)
        => \A i \in DOMAIN IndexNow.errorcode, j \in DOMAIN IndexNow.sitename :
               Lookup(ret.res.out, IndexNow.errorcode[i], IndexNow.sitename[j])
                   = DenseOf(ret.step)[i][j]

\* C7: the dense step table has one row per error code of the index and one
\* column per site of the index, and its cells sum to the counts of all the
\* records of the step.
C7_DenseSum ==
    (ret.op = "get_step_table" /\ ~ret.sparse /\ ~ret.res.raised)
        => /\ Len(ret.res.out) = Len(IndexNow.errorcode)
           /\ \A i \in DOMAIN ret.res.out :
                  Len(ret.res.out[i]) = Len(IndexNow.sitename)
           /\ SumTable(ret.res.out)
                  = SumCounts(SelectWhere(StoreNow.rows, "stepname", ret.step))

\* a dense table of two error codes and two sites with two non-zero cells
C7_Witness ==
    /\ ret.op = "get_step_table" /\ ~ret.sparse /\ ~ret.res.raised
    /\ Len(ret.res.out) = 2
    /\ Len(ret.res.out[1]) = 2
    /\ SumTable(ret.res.out) >= 2
    /\ \E i \in 1..2, j \in 1..2 : ret.res.out[i][j] = 1

\* C8: for any store and split, the row totals of the global pivot sum to
\* the grand total of the counts in the store, and so do its column totals.
C8_TotalsSumToGrand ==
    (ret.op = "get_errors" /\ ret.pievar \in ValidPievars /\ ~ret.res.raised)
        => /\ RowTotals(ret.res.out) = SumCounts(StoreNow.rows)
           /\ ColTotals(ret.res.out) = SumCounts(StoreNow.rows)

\* what the last call of the global pivot returns for the split errorcode
ForErrorcode ==
    IF ret.op = "get_errors" THEN get_errors(HeldNow[1], "errorcode")
    ELSE list_matching_pievars(HeldNow[1], "errorcode", ret.row, ret.col)

\* C9: for a split value outside errorcode, sitename, stepname the global
\* pivot (get_row_col_names, get_errors, list_matching_pievars) gives what
\* it gives for the split errorcode, without an error.
C9_UnknownSplitDefaults ==
    (/\ ret.op \in {"get_errors", "list_matching_pievars"}
     /\ ret.pievar \notin ValidPievars
     /\ HeldNow # None)
        => /\ get_row_col_names(ret.pievar) = get_row_col_names("errorcode")
           /\ ret.res = ForErrorcode

----------------------------------------------------------------------------
(* The grouping specification: a caller groups errors by one function and   *)
(* the result by a second one, or groups them by the composition at once    *)

Subgroups == {"a1", "a2", "b1"}
Mids == {"a", "b"}
Tops == {"t", "u"}

\* an entry of the input of group_errors
Entry(errors, total) ==
    [errors |-> errors, sub |-> EmptyDict, total |-> total, extra |-> EmptyDict]

OneCell(row, col, n) == [r \in {row} |-> [c \in {col} |-> n]]

TwoCells(row, n) == [r \in {row} |-> [c \in {"c1", "c2"} |-> n]]

GroupEntries ==
    {Entry(OneCell("r1", "c1", n), n) : n \in 1..MaxCount}
        \cup {Entry(OneCell("r2", "c1", n), n) : n \in 1..MaxCount}
        \cup {Entry(TwoCells("r1", n), n + n) : n \in 1..MaxCount}

GroupInputs == UNION {[S -> GroupEntries] : S \in SUBSET Subgroups}

\* the keyword the caller passes: a function of the group
Decorators == [key \in {"ready"} |-> [group \in Mids \cup Tops |-> group]]

\* grouping_function of the direct call: lambda subgroup: g(f(subgroup))
Compose(g, f) == [subgroup \in DOMAIN f |-> g[f[subgroup]]]

InitGroup ==
    /\ now = 0
    /\ sessions = [k \in SessionIds |-> None]
    /\ GLOBAL_INFO = None
    /\ ret = NoRet
    /\ inp \in [E : GroupInputs, f : [Subgroups -> Mids], g : [Mids -> Tops]]

\* group_errors(E, f, ready=...)
GroupBy ==
    /\ ret.op = "none"
    /\ ret' = [op |-> "group_errors", by |-> "f",
               res |-> group_errors(inp.E, inp.f, Decorators)]
    /\ UNCHANGED <<now, sessions, GLOBAL_INFO, inp>>

\* group_errors(<the result of grouping by f>, g, ready=...)
GroupAgain ==
    /\ ret.op = "group_errors" /\ ret.by = "f"
    /\ ret' = [op |-> "group_errors", by |-> "g",
               res |-> group_errors(ret.res.output, inp.g, Decorators)]
    /\ UNCHANGED <<now, sessions, GLOBAL_INFO, inp>>

\* group_errors(E, lambda subgroup: g(f(subgroup)), ready=...)
GroupDirect ==
    /\ ret.op = "none"
    /\ ret' = [op |-> "group_errors", by |-> "gf",
               res |-> group_errors(inp.E, Compose(inp.g, inp.f), Decorators)]
    /\ UNCHANGED <<now, sessions, GLOBAL_INFO, inp>>

NextGroup == GroupBy \/ GroupAgain \/ GroupDirect

SpecGroup == InitGroup /\ [][NextGroup]_vars

\* the same groups, the same sums per (row, col) and the same totals
SameSums(left, right) ==
    /\ DOMAIN left = DOMAIN right
    /\ \A group \in DOMAIN left :
           /\ left[group].errors = right[group].errors
           /\ left[group].total = right[group].total

\* C10: grouping E by f and the result by g gives the same groups, the same
\* error sums per (row, col) and the same group totals as grouping E by the
\* composition of g and f.
C10_GroupAssociative ==
    (ret.op = "group_errors" /\ ret.by = "g")
        => SameSums(ret.res.output,
                    group_errors(inp.E, Compose(inp.g, inp.f), Decorators).output)

\* three subgroups: two merged by f, the third merged with them by g, and a
\* cell that all three hold
C10_Witness ==
    /\ ret.op = "group_errors" /\ ret.by = "g"
    /\ DOMAIN inp.E = Subgroups
    /\ inp.f["a1"] = inp.f["a2"] /\ inp.f["a1"] # inp.f["b1"]
    /\ inp.g["a"] = inp.g["b"]
    /\ \A subgroup \in Subgroups : Cell(inp.E[subgroup].errors, "r1", "c1") > 0
    /\ \E group \in DOMAIN ret.res.output :
           Cell(ret.res.output[group].errors, "r1", "c1") >= 3

\* C11: in one call of group_errors each function of kwargs is called once
\* for every group of the output (not once for every subgroup), and what it
\* returns is held by the group under the keyword.
C11_DecoratorOncePerGroup ==
    (ret.op = "group_errors")
        => /\ ret.res.calls
                  = Cardinality(DOMAIN ret.res.output) * Cardinality(DOMAIN Decorators)
           /\ \A group \in DOMAIN ret.res.output, key \in DOMAIN Decorators :
                  /\ key \in DOMAIN ret.res.output[group].extra
                  /\ ret.res.output[group].extra[key] = Decorators[key][group]

----------------------------------------------------------------------------
(* The workflow-list specification: a store is set up from a source with    *)
(* given steps and its list of workflows is asked for                       *)

WfIds == {<<"A">>, <<"A", "-">>, <<"A", "0">>, <<"B">>}
Rests == {<<>>, <<"s">>, <<"t">>}

\* step names of the form /<workflowID>/<rest>
StepNames == {<<"/">> \o wf \o <<"/">> \o rest : wf \in WfIds, rest \in Rests}

StepSets == {S \in SUBSET StepNames : Cardinality(S) <= MaxSteps}

\* the related workflows the metadata collaborator names: none or one
RelatedSets == {<<>>} \cup {<<[wf |-> wf, data |-> <<>>]>> : wf \in WfIds}

\* the source holds one record for every step, last step first
StepsData(steps) ==
    [i \in DOMAIN steps |->
        Rec(steps[Len(steps) + 1 - i], <<"1">>, SiteX, 1)]

InitWorkflows ==
    /\ now = 0
    /\ sessions = [k \in SessionIds |-> None]
    /\ GLOBAL_INFO = None
    /\ ret = NoRet
    /\ inp \in {Env("ok", StepsData(SortStrings(S)), "ok", others, include) :
                    S \in StepSets, others \in RelatedSets, include \in BOOLEAN}

\* the first access builds the store from the source
SetupWorkflows ==
    /\ GLOBAL_INFO = None
    /\ CheckSession(NoSession, FALSE, {inp})

\* check_session().return_workflows()
ReturnWorkflows ==
    /\ GLOBAL_INFO # None
    /\ ret' = [op |-> "return_workflows",
               steps |-> GLOBAL_INFO[1].info.allsteps,
               res |-> return_workflows(GLOBAL_INFO[1].info.allsteps)]
    /\ UNCHANGED <<now, sessions, GLOBAL_INFO, inp>>

NextWorkflows == SetupWorkflows \/ ReturnWorkflows

SpecWorkflows == InitWorkflows /\ [][NextWorkflows]_vars

\* the list is sorted: every step is before the steps after it
IsSortedList(steps) ==
    \A i, j \in DOMAIN steps : i < j => StrLess(steps[i], steps[j])

\* the index of the first step of a workflow
FirstStep(steps, wf) ==
    CHOOSE i \in DOMAIN steps :
        /\ SplitSecond(steps[i]) = wf
        /\ \A j \in 1..(i - 1) : SplitSecond(steps[j]) # wf

\* C12: the step list return_workflows walks after a completed setup is
\* sorted, and for a sorted step list of names /<workflowID>/<rest> it
\* returns every workflow identifier once, in the order of first occurrence.
C12_WorkflowsOnce ==
    (ret.op = "return_workflows")
        => /\ IsSortedList(ret.steps)
           /\ \A i, j \in DOMAIN ret.res : i # j => ret.res[i] # ret.res[j]
           /\ Range(ret.res) = {SplitSecond(ret.steps[i]) : i \in DOMAIN ret.steps}
           /\ \A i, j \in DOMAIN ret.res :
                  i < j => FirstStep(ret.steps, ret.res[i]) < FirstStep(ret.steps, ret.res[j])

\* two steps of the workflow A and a step of a workflow whose name begins
\* with A
C12_Witness ==
    /\ ret.op = "return_workflows"
    /\ Len(ret.steps) = 3
    /\ Len(ret.res) = 2
    /\ <<"A">> \in Range(ret.res)
    /\ \E i \in DOMAIN ret.res : Len(ret.res[i]) = 2

----------------------------------------------------------------------------
(* The concurrent specification: two requests of the server's thread pool   *)
(* run on the process-wide store, one statement at a time.  The code takes  *)
(* no lock and opens its connections with check_same_thread=False.          *)
(* inp holds what the requests hold: the ErrorInfo objects made so far      *)
(* (heap), the one GLOBAL_INFO names (gid), each request's position and     *)
(* locals (th), and for every object which build its cursor (cb) and its    *)
(* index lists (ib) come from, and the builds whose connection is closed.   *)

Threads == {1, 2}

\* the requests: get_step_table reads the cursor and the index lists through
\* two calls of check_session; list_matching_pievars may refresh
Kinds == {"get_step_table", "list_matching_pievars"}

\* the answers of the outside world in the concurrent specification
ConcEnvs == {Env("ok", DataOne, "ok", <<>>, FALSE), Env("ok", DataTwo, "ok", <<>>, FALSE)}

Idle == [pc |-> "idle", kind |-> "none", id |-> 0, cb |-> 0, mb |-> 0]

InitConc ==
    /\ now = 0
    /\ sessions = [k \in SessionIds |-> None]
    /\ GLOBAL_INFO = None
    /\ ret = NoRet
    /\ inp = [th |-> [t \in Threads |-> Idle], heap |-> <<>>, gid |-> 0,
              cb |-> <<>>, ib |-> <<>>, closed |-> {}, builds |-> 0]

\* the request of thread t moves to the statement pc
Goto(t, pc) == [inp.th EXCEPT ![t].pc = pc]

\* a request arrives
Begin(t, kind) ==
    /\ inp.th[t].pc = "idle"
    /\ inp' = [inp EXCEPT !.th[t] = [Idle EXCEPT !.pc = "test", !.kind = kind]]
    /\ UNCHANGED <<now, sessions, GLOBAL_INFO, ret>>

\* if GLOBAL_INFO is None:
TestNone(t) ==
    /\ inp.th[t].pc = "test"
    /\ inp' = [inp EXCEPT !.th = Goto(t, IF GLOBAL_INFO = None THEN "construct" ELSE "take")]
    /\ UNCHANGED <<now, sessions, GLOBAL_INFO, ret>>

\* what a request that raised leaves
Raised(t) ==
    [op |-> inp.th[t].kind, thread |-> t, done |-> "raised", closed |-> FALSE,
     cb |-> 0, mb |-> 0, id |-> 0]

Constructed(t, r) ==
    IF r.raised
    THEN /\ inp' = [inp EXCEPT !.th[t] = Idle]
         /\ ret' = Raised(t)
         /\ UNCHANGED <<now, sessions, GLOBAL_INFO>>
    ELSE /\ inp' = [inp EXCEPT !.th = Goto(t, "take"),
                               !.heap = Append(@, r.self),
                               !.gid = Len(inp.heap) + 1,
                               !.cb = Append(@, inp.builds + 1),
                               !.ib = Append(@, inp.builds + 1),
                               !.builds = @ + 1]
         /\ GLOBAL_INFO' = Some(r.self)
         /\ UNCHANGED <<now, sessions, ret>>

\* GLOBAL_INFO = ErrorInfo()
Construct(t) ==
    /\ inp.th[t].pc = "construct"
    /\ \E env \in ConcEnvs : Constructed(t, ErrorInfo(<<>>, now, env))

\* theinfo = GLOBAL_INFO, and what the caller does with it next
Take(t) ==
    /\ inp.th[t].pc = "take"
    /\ inp' = [inp EXCEPT !.th[t].id = inp.gid,
                          !.th[t].pc = IF inp.th[t].kind = "list_matching_pievars"
                                       THEN "stale" ELSE "curs"]
    /\ UNCHANGED <<now, sessions, GLOBAL_INFO, ret>>

\* if can_refresh and theinfo.timestamp < time.time() - 60*30:
TestStale(t) ==
    /\ inp.th[t].pc = "stale"
    /\ inp' = [inp EXCEPT !.th = Goto(t, IF IsStale(inp.heap[inp.th[t].id], now)
                                         THEN "teardown" ELSE "curs")]
    /\ UNCHANGED <<now, sessions, GLOBAL_INFO, ret>>

\* GLOBAL_INFO names the object id: the variable shows the object as it is now
Shown(id, self) == IF id = inp.gid THEN Some(self) ELSE GLOBAL_INFO

\* theinfo.teardown(): the connection of the object's cursor is closed
Teardown(t) ==
    /\ inp.th[t].pc = "teardown"
    /\ inp' = [inp EXCEPT !.th = Goto(t, "setup"),
                          !.heap[inp.th[t].id] = teardown(@),
                          !.closed = @ \cup {inp.cb[inp.th[t].id]}]
    /\ GLOBAL_INFO' = Shown(inp.th[t].id, teardown(inp.heap[inp.th[t].id]))
    /\ UNCHANGED <<now, sessions, ret>>

\* theinfo.setup() down to `self.curs = curs`
SetupCursor(self, t, env) ==
    IF env.fetch = "fail"
    THEN [raised |-> TRUE,
          self |-> [self EXCEPT !.timestamp = t, !.conn = "open", !.cursOnConn = FALSE]]
    ELSE [raised |-> FALSE,
          self |-> [self EXCEPT !.timestamp = t, !.conn = "open", !.cursOnConn = TRUE,
                                !.curs = [open |-> TRUE,
                                          tbl |-> add_to_database(create_table, env.data)]]]

SetupStarted(t, r) ==
    IF r.raised
    THEN /\ inp' = [inp EXCEPT !.th[t] = Idle, !.heap[inp.th[t].id] = r.self]
         /\ GLOBAL_INFO' = Shown(inp.th[t].id, r.self)
         /\ ret' = Raised(t)
         /\ UNCHANGED <<now, sessions>>
    ELSE /\ inp' = [inp EXCEPT !.th = Goto(t, "lists"),
                               !.heap[inp.th[t].id] = r.self,
                               !.cb[inp.th[t].id] = inp.builds + 1,
                               !.builds = @ + 1]
         /\ GLOBAL_INFO' = Shown(inp.th[t].id, r.self)
         /\ UNCHANGED <<now, sessions, ret>>

\* the first statements of theinfo.setup()
SetupStart(t) ==
    /\ inp.th[t].pc = "setup"
    /\ \E env \in ConcEnvs :
           SetupStarted(t, SetupCursor(inp.heap[inp.th[t].id], now, env))

SetupEnded(t, r) ==
    IF r.raised
    THEN /\ inp' = [inp EXCEPT !.th[t] = Idle, !.heap[inp.th[t].id] = r.self]
         /\ GLOBAL_INFO' = Shown(inp.th[t].id, r.self)
         /\ ret' = Raised(t)
         /\ UNCHANGED <<now, sessions>>
    ELSE /\ inp' = [inp EXCEPT !.th = Goto(t, "curs"),
                               !.heap[inp.th[t].id] = r.self,
                               !.ib[inp.th[t].id] = inp.cb[inp.th[t].id]]
         /\ GLOBAL_INFO' = Shown(inp.th[t].id, r.self)
         /\ UNCHANGED <<now, sessions, ret>>

\* the rest of theinfo.setup(): self.set_all_lists() and the related workflows
SetupEnd(t) ==
    /\ inp.th[t].pc = "lists"
    /\ \E env \in ConcEnvs :
           /\ add_to_database(create_table, env.data) = inp.heap[inp.th[t].id].curs.tbl
           /\ SetupEnded(t, SetupLists(inp.heap[inp.th[t].id], env,
                                       inp.heap[inp.th[t].id].curs.tbl))

\* curs = check_session(session).curs
ReadCurs(t) ==
    /\ inp.th[t].pc = "curs"
    /\ inp' = [inp EXCEPT
           !.th[t].cb = IF inp.heap[inp.th[t].id].curs.open
                        THEN inp.cb[inp.th[t].id] ELSE 0,
           !.th[t].pc = IF inp.th[t].kind = "get_step_table"
                        THEN "allmap" ELSE "execute"]
    /\ UNCHANGED <<now, sessions, GLOBAL_INFO, ret>>

\* allmap = check_session(session).get_allmap(): GLOBAL_INFO is read again
ReadAllmap(t) ==
    /\ inp.th[t].pc = "allmap"
    /\ inp' = [inp EXCEPT !.th[t].mb = inp.ib[inp.gid], !.th[t].pc = "execute"]
    /\ UNCHANGED <<now, sessions, GLOBAL_INFO, ret>>

\* curs.execute(query): on a closed connection it raises
Execute(t) ==
    /\ inp.th[t].pc = "execute"
    /\ ret' = [op |-> inp.th[t].kind, thread |-> t, done |-> "executed",
               closed |-> (inp.th[t].cb = 0 \/ inp.th[t].cb \in inp.closed),
               cb |-> inp.th[t].cb, mb |-> inp.th[t].mb, id |-> inp.th[t].id]
    /\ inp' = [inp EXCEPT !.th[t] = Idle]
    /\ UNCHANGED <<now, sessions, GLOBAL_INFO>>

NextConc ==
    \/ Tick
    \/ \E t \in Threads, kind \in Kinds : Begin(t, kind)
    \/ \E t \in Threads : TestNone(t)
    \/ \E t \in Threads : Construct(t)
    \/ \E t \in Threads : Take(t)
    \/ \E t \in Threads : TestStale(t)
    \/ \E t \in Threads : Teardown(t)
    \/ \E t \in Threads : SetupStart(t)
    \/ \E t \in Threads : SetupEnd(t)
    \/ \E t \in Threads : ReadCurs(t)
    \/ \E t \in Threads : ReadAllmap(t)
    \/ \E t \in Threads : Execute(t)

SpecConc == InitConc /\ [][NextConc]_vars

\* C14: under any interleaving of requests on the process-wide store, a
\* request never executes a query on a connection a refresh has closed and
\* never combines a cursor and index lists of different builds (looked at
\* while the process has made one ErrorInfo only).
C14_NoMidRebuild ==
    (ret.op \in Kinds /\ ret.done = "executed" /\ Len(inp.heap) = 1)
        => /\ ~ret.closed
           /\ ret.op = "get_step_table" => ret.cb = ret.mb

\* C15: the process-wide entry is built at most once: under any interleaving
\* of first accesses without a session at most one ErrorInfo is constructed
\* for it, and every access returns that instance.
C15_BuiltOnce ==
    /\ Len(inp.heap) <= 1
    /\ (ret.op \in Kinds /\ ret.done = "executed") => ret.id = 1

----------------------------------------------------------------------------
(* Conservation of counts by group_errors (on the grouping specification)  *)

\* the input and the grouping function of the last call of group_errors
LastInput ==
    IF ret.by = "g" THEN group_errors(inp.E, inp.f, Decorators).output ELSE inp.E

LastFunction ==
    IF ret.by = "g" THEN inp.g
    ELSE IF ret.by = "f" THEN inp.f ELSE Compose(inp.g, inp.f)

\* the subgroups of the input the function sends to a group
Members(group) == {s \in DOMAIN LastInput : LastFunction[s] = group}

\* C17: every cell of an output group is the sum of that cell over the
\* subgroups sent to the group, the group's total is the sum of their totals,
\* every subgroup's entry is kept as it was under its own name, and the
\* group totals add up to the input totals.
C17_GroupConserves ==
    (ret.op = "group_errors")
        => /\ DOMAIN ret.res.output = {LastFunction[s] : s \in DOMAIN LastInput}
           /\ \A group \in DOMAIN ret.res.output :
                  /\ \A row \in {"r1", "r2"}, col \in {"c1", "c2"} :
                         Cell(ret.res.output[group].errors, row, col)
                             = SumFn([s \in Members(group) |->
                                         Cell(LastInput[s].errors, row, col)])
                  /\ ret.res.output[group].total
                         = SumFn([s \in Members(group) |-> LastInput[s].total])
                  /\ DOMAIN ret.res.output[group].sub = Members(group)
                  /\ \A s \in Members(group) :
                         ret.res.output[group].sub[s] = LastInput[s]
           /\ SumFn([group \in DOMAIN ret.res.output |-> ret.res.output[group].total])
                  = SumFn([s \in DOMAIN LastInput |-> LastInput[s].total])

\* a group of two subgroups that hold the same cell
C17_Witness ==
    /\ ret.op = "group_errors" /\ ret.by = "f"
    /\ \E group \in DOMAIN ret.res.output :
           /\ Cardinality(DOMAIN ret.res.output[group].sub) = 2
           /\ \A s \in Members(group) : Cell(LastInput[s].errors, "r1", "c1") > 0
           /\ Cell(ret.res.output[group].errors, "r1", "c1") >= 2
           /\ ret.res.output[group].total >= 3

----------------------------------------------------------------------------
(* The sessions specification: two sessions and the requests without one    *)

TwoSessions == {"s1", "s2"}

\* the answers of the outside world in the sessions specification
SessionEnvs == {Env("ok", DataOne, "ok", <<>>, FALSE), Env("fail", <<>>, "ok", <<>>, FALSE)}

InitSessions ==
    /\ now = 0
    /\ sessions = [k \in TwoSessions |-> None]
    /\ GLOBAL_INFO = None
    /\ ret = NoRet
    /\ inp = None

NextSessions ==
    \/ Tick
    \/ \E k \in TwoSessions \cup {NoSession}, can_refresh \in BOOLEAN :
           CheckSession(k, can_refresh, SessionEnvs)
    \/ \E k \in TwoSessions : ResetCache(k, SessionEnvs)

SpecSessions == InitSessions /\ [][NextSessions]_vars

\* C19: an access, refresh or reset made with one session changes neither
\* the entry of another session nor the process-wide entry, and an access
\* without a session changes no session's entry.
C19_SessionsIndependent ==
    [][now' = now
          => \A k \in (TwoSessions \cup {NoSession}) \ {ret'.session} :
                 Held(sessions', GLOBAL_INFO', k) = Held(sessions, GLOBAL_INFO, k)]_vars

\* a refresh for one session while the other session and the process hold
\* older entries
C19_Witness ==
    /\ ret.op = "check_session" /\ ret.did = "refresh" /\ ~ret.raised
    /\ ret.session = "s1"
    /\ sessions["s2"] # None /\ GLOBAL_INFO # None
    /\ sessions["s2"][1].timestamp < sessions["s1"][1].timestamp
    /\ GLOBAL_INFO[1].timestamp < sessions["s1"][1].timestamp

----------------------------------------------------------------------------
(* The cells of one page, read one call after the other *)

\* C21: in a sequence of list_matching_pievars calls made for one key with
\* no reset in between, every call reads from the same build of the store:
\* the call that follows another one finds the entry the earlier call read
\* from and leaves it with the same creation time, even when the clock
\* crossed the staleness threshold between the two calls.  Only pairs of
\* calls that both returned their cell are compared.
C21_SameSnapshot ==
    [][(/\ now' = now
        /\ ret.op = "list_matching_pievars" /\ ~ret.res.raised
        /\ ret'.op = "list_matching_pievars" /\ ~ret'.res.raised
        /\ ret'.session = ret.session
        /\ Held(sessions, GLOBAL_INFO, ret.session) # None)
           => /\ Held(sessions', GLOBAL_INFO', ret.session) # None
              /\ Held(sessions', GLOBAL_INFO', ret.session)[1].timestamp
                     = Held(sessions, GLOBAL_INFO, ret.session)[1].timestamp]_vars

====
